---------------------------- MODULE Spec2Model ----------------------------
(* A model of github.com/xgfone/sqlx: the dialect functions (Placeholder,  *)
(* Quote, LimitOffset), the dialect registry and DefaultDialect, the       *)
(* INSERT / SELECT / UPDATE statement builders, and Build step by step     *)
(* with the buffer pool.                                                   *)
(* SQL text is a sequence of one-character strings, so that quoting,       *)
(* splitting and number formatting are computed character by character.    *)
EXTENDS Integers, Sequences, FiniteSets, TLC

VARIABLES
    qd, qs, qout, qpc,              \* one call of dialect.Quote
    ld, llimit, loffset, lout, lpc, \* one call of dialect.LimitOffset
    DefaultDialect,                 \* the package variable DefaultDialect
    ib, ibOut,                      \* an InsertBuilder and the outcome of the last call on it
    sb, sbOut,                      \* a SelectBuilder and the outcome of the last call on it
    ub, ubOut,                      \* an UpdateBuilder and the outcome of the last call on it
    dialects, regOut,               \* the dialect registry and the outcome of the last call on it
    bufpool, bufs, renders          \* the buffer pool, the buffers' contents, the running Builds

qvars == <<qd, qs, qout, qpc>>
lvars == <<ld, llimit, loffset, lout, lpc>>
ivars == <<ib, ibOut>>
svars == <<sb, sbOut>>
uvars == <<ub, ubOut>>
rvars == <<dialects, regOut>>
pvars == <<bufpool, bufs, renders>>
vars == <<qvars, lvars, DefaultDialect, ivars, svars, uvars, rvars, pvars>>

(***************************************************************************)
(* Bounds of the model.                                                    *)
(***************************************************************************)
MaxLen == 4      \* longest identifier drawn for Quote (besides the named examples)
MaxNum == 2      \* limits and offsets are drawn from -MaxNum .. MaxNum (and 10, 20)
MaxRows == 2     \* most value rows an InsertBuilder holds
MaxWidth == 2    \* widest value row offered to Values / NamedValues
MaxCols == 2     \* longest column list offered to Columns
MaxSel == 2      \* most columns a SelectBuilder holds
MaxFrom == 1     \* most tables a SelectBuilder holds
MaxSet == 4      \* most assignments an UpdateBuilder holds
MaxSetArgs == 2  \* most assignments given to one Set or SetMore call
MaxWhere == 1    \* most predicates an UpdateBuilder holds
MaxNames == 2    \* new dialect names offered to RegisterDialect
MaxImpl == 2     \* implementations of a dialect a caller has under one name
MaxRenders == 2  \* Build calls running at once on one builder
MaxSelWhere == 3 \* most predicates a SelectBuilder holds
MaxWhereArgs == 2 \* most predicates given to one Where call of a SelectBuilder
MaxGroup == 2    \* most columns given to one GroupBy call
MaxHaving == 2   \* most HAVING expressions a SelectBuilder holds
MaxOrder == 1    \* most ORDER BY columns a SelectBuilder holds

(***************************************************************************)
(* Strings: Go's strings.IndexByte, slicing, strings.Split, strings.Join   *)
(* and fmt's %d.  Indices are Go's (0-based); -1 means "not found".        *)
(***************************************************************************)
RECURSIVE IndexFrom(_, _, _)
IndexFrom(s, c, i) ==
    IF i >= Len(s) THEN -1
    ELSE IF s[i + 1] = c THEN i
    ELSE IndexFrom(s, c, i + 1)

IndexByte(s, c) == IndexFrom(s, c, 0)

\* Go's s[lo:hi]
Slice(s, lo, hi) == SubSeq(s, lo + 1, hi)

\* Go's s[lo:]
SliceFrom(s, lo) == SubSeq(s, lo + 1, Len(s))

RECURSIVE Split(_, _)
Split(s, sep) ==
    LET i == IndexByte(s, sep)
    IN IF i < 0 THEN <<s>>
       ELSE <<Slice(s, 0, i)>> \o Split(SliceFrom(s, i + 1), sep)

RECURSIVE Join(_, _)
Join(vs, sep) ==
    IF Len(vs) = 0 THEN <<>>
    ELSE IF Len(vs) = 1 THEN vs[1]
    ELSE vs[1] \o sep \o Join(Tail(vs), sep)

DigitChar(n) == <<"0", "1", "2", "3", "4", "5", "6", "7", "8", "9">>[n + 1]

DigitVal(c) == CHOOSE n \in 0..9 : DigitChar(n) = c

RECURSIVE Utoa(_)
Utoa(n) == IF n < 10 THEN <<DigitChar(n)>> ELSE Utoa(n \div 10) \o <<DigitChar(n % 10)>>

\* fmt.Sprintf("%d", n)
Itoa(n) == IF n < 0 THEN <<"-">> \o Utoa(-n) ELSE Utoa(n)

(***************************************************************************)
(* The built-in dialects.                                                  *)
(***************************************************************************)
pqDialect == "postgres"
mysqlDialect == "mysql"
sqlite3Dialect == "sqlite3"

MySQL == [name |-> mysqlDialect]
Sqlite3 == [name |-> sqlite3Dialect]
Postgres == [name |-> pqDialect]

Dialects == {MySQL, Sqlite3, Postgres}

\* Placeholder, were the ordinals counted from 2
PlaceholderOffByOne(d, i) ==
    IF d.name = pqDialect THEN <<"$">> \o Itoa(i + 1) ELSE <<"?">>

Placeholder(d, i) ==
    IF d.name = pqDialect THEN <<"$">> \o Itoa(i) ELSE <<"?">>

\* The two quote characters.  The backtick is written as a named one-character
\* token, because the character itself cannot appear in a string of this module.
BT == "<backtick>"
DQ == "\""

\* the character the dialect wraps identifiers in
QuoteChar(d) == IF d.name = mysqlDialect THEN BT ELSE DQ

\* isQuoted, were it to look for a character no dialect quotes with
isQuotedWrongChar(d, s) == IndexByte(s, "#") >= 0

isQuoted(d, s) == IndexByte(s, QuoteChar(d)) >= 0

\* dialect._quote (an identifier cannot start with an underscore here)
quote_(d, s) == <<QuoteChar(d)>> \o s \o <<QuoteChar(d)>>

\* quote, without the test for an identifier that is quoted already
quoteWithoutQuotedTest(d, s) ==
    IF s = <<"*">> THEN s
    ELSE LET i == IndexByte(s, "(")
         IN IF i > -1
            THEN LET s_ == SliceFrom(s, i + 1)
                     i2 == IndexByte(s_, ")")
                 IN IF IndexByte(s_, "(") > -1 THEN s
                    ELSE IF i2 < 0 THEN s
                    ELSE Slice(s, 0, i) \o <<"(">> \o quote_(d, Slice(s_, 0, i2))
                           \o <<")">> \o SliceFrom(s_, i2 + 1)
            ELSE quote_(d, s)

quote(d, s) ==
    IF s = <<"*">> \/ isQuoted(d, s) THEN s
    ELSE LET i == IndexByte(s, "(")
         IN IF i > -1
            THEN LET s_ == SliceFrom(s, i + 1)
                     i2 == IndexByte(s_, ")")
                 IN IF IndexByte(s_, "(") > -1 THEN s
                    ELSE IF i2 < 0 THEN s
                    ELSE Slice(s, 0, i) \o <<"(">> \o quote_(d, Slice(s_, 0, i2))
                           \o <<")">> \o SliceFrom(s_, i2 + 1)
            ELSE quote_(d, s)

Quote(d, s) ==
    IF IndexByte(s, " ") >= 0 THEN s
    ELSE IF IndexByte(s, ".") < 0 THEN quote(d, s)
    ELSE LET vs == Split(s, ".")
         IN Join([i \in 1..Len(vs) |-> quote(d, vs[i])], <<".">>)

\* the outcome of a call that may panic
Panic == [ok |-> FALSE]
Ret(v) == [ok |-> TRUE, val |-> v]

\* LimitOffset, were the offset tested before the limit
LimitOffsetOffsetFirst(d, limit, offset) ==
    IF offset = 0
    THEN Ret(<<"L", "I", "M", "I", "T", " ">> \o Itoa(limit))
    ELSE IF limit < 0 THEN Panic
    ELSE Ret(<<"L", "I", "M", "I", "T", " ">> \o Itoa(limit)
             \o <<" ", "O", "F", "F", "S", "E", "T", " ">> \o Itoa(offset))

LimitOffset(d, limit, offset) ==
    IF limit < 0 THEN Panic
    ELSE IF offset = 0
    THEN Ret(<<"L", "I", "M", "I", "T", " ">> \o Itoa(limit))
    ELSE Ret(<<"L", "I", "M", "I", "T", " ">> \o Itoa(limit)
             \o <<" ", "O", "F", "F", "S", "E", "T", " ">> \o Itoa(offset))

(***************************************************************************)
(* Inputs.                                                                 *)
(***************************************************************************)
Alphabet == {"a", ".", "(", ")", BT, DQ, " ", "*"}

RECURSIVE StrsUpTo(_)
StrsUpTo(n) ==
    IF n = 0 THEN {<<>>}
    ELSE LET shorter == StrsUpTo(n - 1)
         IN shorter \cup {Append(s, c) : s \in {t \in shorter : Len(t) = n - 1}, c \in Alphabet}

CountTC == <<"C", "O", "U", "N", "T", "(", "t", ".", "c", ")">>
CountStar == <<"C", "O", "U", "N", "T", "(", "*", ")">>
QuotedADotB == <<BT, "a", BT, ".", "b">>

QuoteExamples == {CountTC, CountStar, QuotedADotB}

QuoteInputs == StrsUpTo(MaxLen) \cup QuoteExamples

Nums == (-MaxNum .. MaxNum) \cup {10, 20}

(***************************************************************************)
(* Idle values of the components a specification does not exercise.        *)
(***************************************************************************)
QIdle == qd = MySQL /\ qs = <<>> /\ qout = <<>> /\ qpc = "idle"
LIdle == ld = MySQL /\ llimit = 0 /\ loffset = 0 /\ lout = Panic /\ lpc = "idle"

(***************************************************************************)
(* One call of Quote.                                                      *)
(***************************************************************************)
QuoteCall ==
    /\ qpc = "call"
    /\ qout' = Quote(qd, qs)
    /\ qpc' = "done"
    /\ UNCHANGED <<qd, qs, lvars, DefaultDialect, ivars, svars, uvars, rvars, pvars>>

\* Quote called again, on what the first call returned
QuoteAgainCall ==
    /\ qpc = "done"
    /\ qs' = qout
    /\ qout' = Quote(qd, qout)
    /\ qpc' = "again"
    /\ UNCHANGED <<qd, lvars, DefaultDialect, ivars, svars, uvars, rvars, pvars>>

(***************************************************************************)
(* One call of LimitOffset.                                                *)
(***************************************************************************)
LimitOffsetCall ==
    /\ lpc = "call"
    /\ lout' = LimitOffset(ld, llimit, loffset)
    /\ lpc' = "done"
    /\ UNCHANGED <<ld, llimit, loffset, qvars, DefaultDialect, ivars, svars, uvars, rvars, pvars>>

(***************************************************************************)
(* ArgsBuilder and the interception hook.                                  *)
(***************************************************************************)
NilDialect == [name |-> "<nil>"]

NewArgsBuilder(d) == [dialect |-> d, args |-> <<>>]

\* ArgsBuilder.Add: appends the value, returns the placeholder of its position
ArgsAdd(ab, v) ==
    [ab |-> [ab EXCEPT !.args = Append(ab.args, v)],
     ph |-> Placeholder(ab.dialect, Len(ab.args) + 1)]

\* no interceptor is installed on the builders of this model
intercept(sql, args) == Ret([sql |-> sql, args |-> args])

(***************************************************************************)
(* InsertBuilder.                                                          *)
(***************************************************************************)
Str_INTO == <<" ", "I", "N", "T", "O", " ">>
Str_VALUES == <<" ", "V", "A", "L", "U", "E", "S", " ">>
Str_INSERT == <<"I", "N", "S", "E", "R", "T">>
Str_INSERT_IGNORE == Str_INSERT \o <<" ", "I", "G", "N", "O", "R", "E">>
Str_REPLACE == <<"R", "E", "P", "L", "A", "C", "E">>
CommaSp == <<",", " ">>

NewInsertBuilder(dflt) ==
    [dialect |-> dflt, verb |-> <<>>, table |-> <<>>, columns |-> <<>>, values |-> <<>>]

\* addValues with ab == nil: valnum bare positional placeholders
addValuesNoArgs(dialect, buf, valnum) ==
    buf \o <<"(">> \o Join([i \in 1..valnum |-> Placeholder(dialect, i)], CommaSp) \o <<")">>

RECURSIVE addValuesLoop(_, _, _, _)
addValuesLoop(buf, ab, values, i) ==
    IF i > Len(values) THEN [buf |-> buf, ab |-> ab]
    ELSE LET r == ArgsAdd(ab, values[i])
         IN addValuesLoop(buf \o (IF i > 1 THEN CommaSp ELSE <<>>) \o r.ph, r.ab, values, i + 1)

\* the loop of addValues, were the placeholder taken from the position in the row
RECURSIVE addValuesRestartLoop(_, _, _, _)
addValuesRestartLoop(buf, ab, values, i) ==
    IF i > Len(values) THEN [buf |-> buf, ab |-> ab]
    ELSE LET r == ArgsAdd(ab, values[i])
         IN addValuesRestartLoop(buf \o (IF i > 1 THEN CommaSp ELSE <<>>)
                                     \o Placeholder(ab.dialect, i), r.ab, values, i + 1)

\* addValues, were each row numbered from 1 again
addValuesPerRow(buf, ab, values) ==
    LET r == addValuesRestartLoop(buf \o <<"(">>, ab, values, 1)
    IN [buf |-> r.buf \o <<")">>, ab |-> r.ab]

\* addValues with an ArgsBuilder
addValues(buf, ab, values) ==
    LET r == addValuesLoop(buf \o <<"(">>, ab, values, 1)
    IN [buf |-> r.buf \o <<")">>, ab |-> r.ab]

RECURSIVE insertRows(_, _, _, _)
insertRows(buf, ab, rows, i) ==
    IF i > Len(rows) THEN [buf |-> buf, ab |-> ab]
    ELSE LET r == addValues(buf \o (IF i > 1 THEN CommaSp ELSE <<>>), ab, rows[i])
         IN insertRows(r.buf, r.ab, rows, i + 1)

InsertBuild(b, dflt) ==
    LET vallen == Len(b.values)
        valnum0 == IF vallen > 0 THEN Len(b.values[1]) ELSE 0
        colnum == Len(b.columns)
        valnum == IF colnum # 0 /\ valnum0 = 0 THEN colnum ELSE valnum0
    IN IF colnum = 0 /\ valnum0 = 0 THEN Panic
       ELSE IF colnum # 0 /\ valnum0 # 0 /\ colnum # valnum0 THEN Panic
       ELSE IF b.table = <<>> THEN Panic
       ELSE LET dialect == IF b.dialect = NilDialect THEN dflt ELSE b.dialect
                head == b.verb \o Str_INTO \o Quote(dialect, b.table)
                          \o (IF colnum > 0
                              THEN <<" ", "(">>
                                     \o Join([i \in 1..colnum |-> Quote(dialect, b.columns[i])], CommaSp)
                                     \o <<")">>
                              ELSE <<>>)
                          \o Str_VALUES
            IN IF vallen = 0
               THEN intercept(addValuesNoArgs(dialect, head, valnum), <<>>)
               ELSE LET r == insertRows(head, NewArgsBuilder(dialect), b.values, 1)
                    IN intercept(r.buf, r.ab.args)

\* inputs of the insert operations
Vals == {"v1", "v2"}
ColName(i) == <<"c", DigitChar(i)>>
ColLists == {[i \in 1..n |-> ColName(i)] : n \in 0..MaxCols}
Rows == UNION {[1..n -> Vals] : n \in 0..MaxWidth}
NamedRows == {[i \in 1..Len(r) |-> [Name |-> ColName(i), Value |-> r[i]]] : r \in Rows}
TableNames == {<<>>, <<"t">>}

CallOk == [op |-> "call", ok |-> TRUE]

IIdle == ib = NewInsertBuilder(MySQL) /\ ibOut = [op |-> "idle", ok |-> TRUE]

IOthers == <<qvars, lvars, DefaultDialect, svars, uvars, rvars, pvars>>

Into(table) ==
    /\ ibOut.op # "idle"
    /\ ib' = [ib EXCEPT !.verb = Str_INSERT, !.table = table]
    /\ ibOut' = CallOk
    /\ UNCHANGED IOthers

IgnoreInto(table) ==
    /\ ibOut.op # "idle"
    /\ ib' = [ib EXCEPT !.verb = Str_INSERT_IGNORE, !.table = table]
    /\ ibOut' = CallOk
    /\ UNCHANGED IOthers

ReplaceInto(table) ==
    /\ ibOut.op # "idle"
    /\ ib' = [ib EXCEPT !.verb = Str_REPLACE, !.table = table]
    /\ ibOut' = CallOk
    /\ UNCHANGED IOthers

Columns(columns) ==
    /\ ibOut.op # "idle"
    /\ ib' = [ib EXCEPT !.columns = columns]
    /\ ibOut' = CallOk
    /\ UNCHANGED IOthers

\* Values, without the comparison with the first row
ValuesNoCheck(values) ==
    /\ ibOut.op # "idle"
    /\ Len(ib.values) < MaxRows
    /\ ib' = [ib EXCEPT !.values = Append(@, values)]
    /\ ibOut' = [op |-> "Values", ok |-> TRUE]
    /\ UNCHANGED IOthers

Values(values) ==
    /\ ibOut.op # "idle"
    /\ Len(ib.values) < MaxRows
    /\ IF Len(ib.values) > 0 /\ Len(ib.values[1]) # Len(values)
       THEN /\ ibOut' = [op |-> "Values", ok |-> FALSE, width |-> Len(values)]
            /\ UNCHANGED ib
       ELSE /\ ib' = [ib EXCEPT !.values = Append(@, values)]
            /\ ibOut' = [op |-> "Values", ok |-> TRUE]
    /\ UNCHANGED IOthers

NamedValues(values) ==
    /\ ibOut.op # "idle"
    /\ Len(ib.values) < MaxRows
    /\ LET len_ == Len(values)
           cs == [i \in 1..len_ |-> values[i].Name]
           vs == [i \in 1..len_ |-> values[i].Value]
       IN IF Len(ib.values) > 0 /\ Len(ib.values[1]) # len_
          THEN /\ ibOut' = [op |-> "NamedValues", ok |-> FALSE, width |-> len_]
               /\ UNCHANGED ib
          ELSE /\ ib' = [ib EXCEPT !.columns = IF Len(ib.columns) = 0 THEN cs ELSE @,
                                   !.values = Append(@, vs)]
               /\ ibOut' = [op |-> "NamedValues", ok |-> TRUE]
    /\ UNCHANGED IOthers

InsertSetDialect(d) ==
    /\ ibOut.op # "idle"
    /\ ib' = [ib EXCEPT !.dialect = d]
    /\ ibOut' = CallOk
    /\ UNCHANGED IOthers

InsertBuilderBuild ==
    /\ ibOut.op # "idle"
    /\ ibOut' = [op |-> "Build"] @@ InsertBuild(ib, DefaultDialect)
    /\ UNCHANGED ib
    /\ UNCHANGED IOthers

(***************************************************************************)
(* Conditions: a comparison of a column with a bound value, or an AND of   *)
(* conditions.                                                             *)
(***************************************************************************)
Equal(col, val) == [kind |-> "cmp", op |-> <<"=">>, col |-> col, val |-> val]
And(conds) == [kind |-> "and", conds |-> conds]

Str_AND == <<" ", "A", "N", "D", " ">>

\* a comparison: quoted column, operator, placeholder of the bound value
CmpBuild(c, ab) ==
    LET r == ArgsAdd(ab, c.val)
    IN [buf |-> Quote(ab.dialect, c.col) \o c.op \o r.ph, ab |-> r.ab]

RECURSIVE AndLoop(_, _, _, _)
AndLoop(buf, ab, conds, i) ==
    IF i > Len(conds) THEN [buf |-> buf, ab |-> ab]
    ELSE LET r == CmpBuild(conds[i], ab)
         IN AndLoop(buf \o (IF i > 1 THEN Str_AND ELSE <<>>) \o r.buf, r.ab, conds, i + 1)

\* Condition.Build(ab)
CondBuild(c, ab) ==
    IF c.kind = "cmp" THEN CmpBuild(c, ab)
    ELSE LET r == AndLoop(<<"(">>, ab, c.conds, 1)
         IN [buf |-> r.buf \o <<")">>, ab |-> r.ab]

(***************************************************************************)
(* SelectBuilder.                                                          *)
(***************************************************************************)
Str_SELECT == <<"S", "E", "L", "E", "C", "T", " ">>
Str_DISTINCT == <<"D", "I", "S", "T", "I", "N", "C", "T", " ">>
Str_FROM == <<" ", "F", "R", "O", "M", " ">>
Str_AS == <<" ", "A", "S", " ">>
Str_JOIN == <<" ", "J", "O", "I", "N", " ">>
Str_ON == <<" ", "O", "N", " ">>
Str_WHERE == <<" ", "W", "H", "E", "R", "E", " ">>
Str_GROUP_BY == <<" ", "G", "R", "O", "U", "P", " ", "B", "Y", " ">>
Str_HAVING == <<" ", "H", "A", "V", "I", "N", "G", " ">>
Str_ORDER_BY == <<" ", "O", "R", "D", "E", "R", " ", "B", "Y", " ">>

\* &SelectBuilder{dialect: DefaultDialect}
NewSelect(dflt) ==
    [dialect |-> dflt, distinct |-> FALSE, tables |-> <<>>, columns |-> <<>>,
     joins |-> <<>>, wheres |-> <<>>, groupbys |-> <<>>, havings |-> <<>>,
     orderbys |-> <<>>, limit |-> 0, offset |-> 0]

\* alias is the variadic argument: a sequence of strings
getAlias(column, alias) ==
    IF Len(alias) # 0 /\ alias[1] # <<>> THEN alias[1]
    ELSE LET index == IndexByte(column, ".")
         IN IF index # -1
            THEN LET rest == SliceFrom(column, index + 1)
                     close == IndexByte(rest, ")")
                 IN IF close # -1 THEN Slice(rest, 0, close) ELSE rest
            ELSE <<>>

\* SelectBuilder.SelectedColumns: the alias of a column, or the column without one
SelectedColumns(b) ==
    [i \in 1..Len(b.columns) |->
       IF b.columns[i].Alias = <<>> THEN b.columns[i].Column ELSE b.columns[i].Alias]

\* a column or table with its optional alias
AliasedBuild(dialect, name, alias) ==
    Quote(dialect, name) \o (IF alias # <<>> THEN Str_AS \o Quote(dialect, alias) ELSE <<>>)

\* joinTable.Build
JoinTableBuild(jt, dialect) ==
    (IF jt.Type # <<>> THEN <<" ">> \o jt.Type ELSE <<>>)
      \o Str_JOIN \o AliasedBuild(dialect, jt.Table, jt.Alias)
      \o (IF Len(jt.Ons) > 0
          THEN Str_ON \o Join([i \in 1..Len(jt.Ons) |->
                                 Quote(dialect, jt.Ons[i].Left) \o <<"=">>
                                   \o Quote(dialect, jt.Ons[i].Right)], Str_AND)
          ELSE <<>>)

\* the concatenation of a sequence of strings
Concat(vs) == Join(vs, <<>>)

\* the GROUP BY part of SelectBuilder.Build, were HAVING written on its own
GroupByBuildHavingAlone(b, dialect) ==
    (IF Len(b.groupbys) > 0
     THEN Str_GROUP_BY
            \o Join([i \in 1..Len(b.groupbys) |-> Quote(dialect, b.groupbys[i])], CommaSp)
     ELSE <<>>)
      \o (IF Len(b.havings) > 0 THEN Str_HAVING \o Join(b.havings, Str_AND) ELSE <<>>)

\* the GROUP BY part of SelectBuilder.Build: HAVING is inside the test for GROUP BY
GroupByBuild(b, dialect) ==
    IF Len(b.groupbys) > 0
    THEN Str_GROUP_BY
           \o Join([i \in 1..Len(b.groupbys) |-> Quote(dialect, b.groupbys[i])], CommaSp)
           \o (IF Len(b.havings) > 0 THEN Str_HAVING \o Join(b.havings, Str_AND) ELSE <<>>)
    ELSE <<>>

\* everything SelectBuilder.Build writes before the pagination clause, and the args
SelectBody(b, dialect) ==
    LET where == IF Len(b.wheres) > 0
                 THEN CondBuild(IF Len(b.wheres) > 1 THEN And(b.wheres) ELSE b.wheres[1],
                                NewArgsBuilder(dialect))
                 ELSE [buf |-> <<>>, ab |-> NewArgsBuilder(dialect)]
    IN [sql |->
          Str_SELECT
            \o (IF b.distinct THEN Str_DISTINCT ELSE <<>>)
            \o Join([i \in 1..Len(b.columns) |->
                       AliasedBuild(dialect, b.columns[i].Column, b.columns[i].Alias)], CommaSp)
            \o Str_FROM
            \o Join([i \in 1..Len(b.tables) |->
                       AliasedBuild(dialect, b.tables[i].Table, b.tables[i].Alias)], CommaSp)
            \o Concat([i \in 1..Len(b.joins) |-> JoinTableBuild(b.joins[i], dialect)])
            \o (IF Len(b.wheres) > 0 THEN Str_WHERE \o where.buf ELSE <<>>)
            \o GroupByBuild(b, dialect)
            \o (IF Len(b.orderbys) > 0
                THEN Str_ORDER_BY
                       \o Join([i \in 1..Len(b.orderbys) |->
                                  Quote(dialect, b.orderbys[i].Column)
                                    \o (IF b.orderbys[i].Order # <<>>
                                        THEN <<" ">> \o b.orderbys[i].Order ELSE <<>>)], CommaSp)
                ELSE <<>>),
        args |-> where.ab.args]

\* SelectBuilder.Build, without the test for tables
SelectBuildNoTableCheck(b, dflt) ==
    IF Len(b.columns) = 0 THEN Panic
    ELSE LET dialect == IF b.dialect = NilDialect THEN dflt ELSE b.dialect
             body == SelectBody(b, dialect)
         IN IF b.limit > 0 \/ b.offset > 0
            THEN LET lo == LimitOffset(dialect, b.limit, b.offset)
                 IN IF lo.ok THEN intercept(body.sql \o <<" ">> \o lo.val, body.args)
                    ELSE Panic
            ELSE intercept(body.sql, body.args)

SelectBuild(b, dflt) ==
    IF Len(b.tables) = 0 THEN Panic
    ELSE IF Len(b.columns) = 0 THEN Panic
    ELSE LET dialect == IF b.dialect = NilDialect THEN dflt ELSE b.dialect
             body == SelectBody(b, dialect)
         IN IF b.limit > 0 \/ b.offset > 0
            THEN LET lo == LimitOffset(dialect, b.limit, b.offset)
                 IN IF lo.ok THEN intercept(body.sql \o <<" ">> \o lo.val, body.args)
                    ELSE Panic
            ELSE intercept(body.sql, body.args)

\* inputs of the select operations
SelColumns == {<<>>, <<"c", "3">>, <<"t", ".", "c">>}
Aliases == {<<>>, << <<"a">> >>}

SIdle == sb = NewSelect(MySQL) /\ sbOut = [op |-> "idle", ok |-> TRUE]

SOthers == <<qvars, lvars, DefaultDialect, ivars, uvars, rvars, pvars>>

\* SelectBuilder.Select
Select(column, alias) ==
    /\ sbOut.op # "idle"
    /\ Len(sb.columns) < MaxSel
    /\ sb' = IF column # <<>>
             THEN [sb EXCEPT !.columns =
                      Append(@, [Column |-> column, Alias |-> getAlias(column, alias)])]
             ELSE sb
    /\ sbOut' = CallOk
    /\ UNCHANGED SOthers

From(table, alias) ==
    /\ sbOut.op # "idle"
    /\ Len(sb.tables) < MaxFrom
    /\ sb' = [sb EXCEPT !.tables = Append(@, [Table |-> table, Alias |-> getAlias(table, alias)])]
    /\ sbOut' = CallOk
    /\ UNCHANGED SOthers

Limit(limit) ==
    /\ sbOut.op # "idle"
    /\ sb' = [sb EXCEPT !.limit = limit]
    /\ sbOut' = CallOk
    /\ UNCHANGED SOthers

Offset(offset) ==
    /\ sbOut.op # "idle"
    /\ sb' = [sb EXCEPT !.offset = offset]
    /\ sbOut' = CallOk
    /\ UNCHANGED SOthers

\* SelectBuilder.Where, were the predicates of earlier calls replaced
SelectWhereReplaces(conds) ==
    /\ sbOut.op # "idle"
    /\ Len(conds) <= MaxSelWhere
    /\ sb' = [sb EXCEPT !.wheres = conds]
    /\ sbOut' = [op |-> "Where", ok |-> TRUE, args |-> conds]
    /\ UNCHANGED SOthers

\* SelectBuilder.Where
SelectWhere(conds) ==
    /\ sbOut.op # "idle"
    /\ Len(sb.wheres) + Len(conds) <= MaxSelWhere
    /\ sb' = [sb EXCEPT !.wheres = @ \o conds]
    /\ sbOut' = [op |-> "Where", ok |-> TRUE, args |-> conds]
    /\ UNCHANGED SOthers

\* SelectBuilder.GroupBy: resets the GROUP BY columns
GroupBy(columns) ==
    /\ sbOut.op # "idle"
    /\ sb' = [sb EXCEPT !.groupbys = columns]
    /\ sbOut' = [op |-> "GroupBy", ok |-> TRUE, args |-> columns]
    /\ UNCHANGED SOthers

\* SelectBuilder.Having: appends the expressions
Having(exprs) ==
    /\ sbOut.op # "idle"
    /\ Len(sb.havings) + Len(exprs) <= MaxHaving
    /\ sb' = [sb EXCEPT !.havings = @ \o exprs]
    /\ sbOut' = [op |-> "Having", ok |-> TRUE, args |-> exprs]
    /\ UNCHANGED SOthers

\* SelectBuilder.OrderBy; order is the variadic argument
OrderBy(column, order) ==
    /\ sbOut.op # "idle"
    /\ Len(sb.orderbys) < MaxOrder
    /\ sb' = [sb EXCEPT !.orderbys =
                 Append(@, [Column |-> column,
                            Order |-> IF Len(order) > 0 THEN order[1] ELSE <<>>])]
    /\ sbOut' = CallOk
    /\ UNCHANGED SOthers

SelectSetDialect(d) ==
    /\ sbOut.op # "idle"
    /\ sb' = [sb EXCEPT !.dialect = d]
    /\ sbOut' = CallOk
    /\ UNCHANGED SOthers

SelectBuilderBuild ==
    /\ sbOut.op # "idle"
    /\ sbOut' = [op |-> "Build"] @@ SelectBuild(sb, DefaultDialect)
    /\ UNCHANGED sb
    /\ UNCHANGED SOthers

(***************************************************************************)
(* UpdateBuilder and the assignment expressions of its SET clause.         *)
(***************************************************************************)
Str_UPDATE == <<"U", "P", "D", "A", "T", "E", " ">>
Str_SET == <<" ", "S", "E", "T", " ">>

Assign(col, val) == [kind |-> "assign", col |-> col, val |-> val]
Incr(col) == [kind |-> "incr", col |-> col, val |-> ""]
Decr(col) == [kind |-> "decr", col |-> col, val |-> ""]
Add(col, val) == [kind |-> "add", col |-> col, val |-> val]
Sub(col, val) == [kind |-> "sub", col |-> col, val |-> val]

\* Setter.Build(ab): the assignment's text and the accumulator after it
SetterBuild(st, ab) ==
    LET c == Quote(ab.dialect, st.col)
        r == ArgsAdd(ab, st.val)
    IN CASE st.kind = "assign" -> [buf |-> c \o <<"=">> \o r.ph, ab |-> r.ab]
         [] st.kind = "incr" -> [buf |-> c \o <<"=">> \o c \o <<"+", "1">>, ab |-> ab]
         [] st.kind = "decr" -> [buf |-> c \o <<"=">> \o c \o <<"-", "1">>, ab |-> ab]
         [] st.kind = "add" -> [buf |-> c \o <<"=">> \o c \o <<"+">> \o r.ph, ab |-> r.ab]
         [] st.kind = "sub" -> [buf |-> c \o <<"=">> \o c \o <<"-">> \o r.ph, ab |-> r.ab]

RECURSIVE SettersLoop(_, _, _, _)
SettersLoop(buf, ab, setters, i) ==
    IF i > Len(setters) THEN [buf |-> buf, ab |-> ab]
    ELSE LET r == SetterBuild(setters[i], ab)
         IN SettersLoop(buf \o (IF i > 1 THEN CommaSp ELSE <<>>) \o r.buf, r.ab, setters, i + 1)

NewUpdate(dflt) == [dialect |-> dflt, table |-> <<>>, setters |-> <<>>, wheres |-> <<>>]

\* UpdateBuilder.Build: one ArgsBuilder serves SET and then WHERE
UpdateBuild(b, dflt) ==
    IF b.table = <<>> \/ Len(b.setters) = 0 THEN Panic
    ELSE LET dialect == IF b.dialect = NilDialect THEN dflt ELSE b.dialect
             set == SettersLoop(Str_UPDATE \o Quote(dialect, b.table) \o Str_SET,
                                NewArgsBuilder(dialect), b.setters, 1)
         IN IF Len(b.wheres) > 0
            THEN LET w == CondBuild(IF Len(b.wheres) > 1 THEN And(b.wheres) ELSE b.wheres[1],
                                    set.ab)
                 IN intercept(set.buf \o Str_WHERE \o w.buf, w.ab.args)
            ELSE intercept(set.buf, set.ab.args)

\* inputs of the update operations
Str_table == <<"t", "a", "b", "l", "e">>
Setters == {Assign(ColName(1), "v1"), Incr(ColName(2)), Assign(ColName(3), "123"),
            Add(ColName(4), "456"), Decr(ColName(2))}
\* the column number of a column name
ColIndex(col) == DigitVal(col[2])
\* one Set or SetMore call names its columns in increasing order, each at most once
SetterLists ==
    {l \in UNION {[1..n -> Setters] : n \in 1..MaxSetArgs} :
        \A i \in 1..(Len(l) - 1) : ColIndex(l[i].col) < ColIndex(l[i + 1].col)}
Conds == {Equal(ColName(3), "789"), Equal(ColName(1), "v1")}
\* the predicate of ExampleUpdateBuilder
UpdateConds == {Equal(ColName(3), "789")}

UIdle == ub = NewUpdate(MySQL) /\ ubOut = [op |-> "idle", ok |-> TRUE]

UOthers == <<qvars, lvars, DefaultDialect, ivars, svars, rvars, pvars>>

\* UpdateBuilder.Table
Table(table) ==
    /\ ubOut.op # "idle"
    /\ ub' = [ub EXCEPT !.table = table]
    /\ ubOut' = CallOk
    /\ UNCHANGED UOthers

\* UpdateBuilder.Set, were the assignments of earlier calls kept
SetAppends(setters) ==
    /\ ubOut.op # "idle"
    /\ Len(ub.setters) + Len(setters) <= MaxSet
    /\ ub' = [ub EXCEPT !.setters = @ \o setters]
    /\ ubOut' = [op |-> "Set", ok |-> TRUE, args |-> setters]
    /\ UNCHANGED UOthers

\* UpdateBuilder.Set: resets the assignments
Set(setters) ==
    /\ ubOut.op # "idle"
    /\ ub' = [ub EXCEPT !.setters = setters]
    /\ ubOut' = [op |-> "Set", ok |-> TRUE, args |-> setters]
    /\ UNCHANGED UOthers

\* UpdateBuilder.SetMore: appends the assignments
SetMore(setters) ==
    /\ ubOut.op # "idle"
    /\ Len(ub.setters) + Len(setters) <= MaxSet
    /\ ub' = [ub EXCEPT !.setters = @ \o setters]
    /\ ubOut' = [op |-> "SetMore", ok |-> TRUE, args |-> setters]
    /\ UNCHANGED UOthers

\* UpdateBuilder.Where
Where(cond) ==
    /\ ubOut.op # "idle"
    /\ Len(ub.wheres) < MaxWhere
    /\ ub' = [ub EXCEPT !.wheres = Append(@, cond)]
    /\ ubOut' = CallOk
    /\ UNCHANGED UOthers

UpdateSetDialect(d) ==
    /\ ubOut.op # "idle"
    /\ ub' = [ub EXCEPT !.dialect = d]
    /\ ubOut' = CallOk
    /\ UNCHANGED UOthers

UpdateBuilderBuild ==
    /\ ubOut.op # "idle"
    /\ ubOut' = [op |-> "Build"] @@ UpdateBuild(ub, DefaultDialect)
    /\ UNCHANGED ub
    /\ UNCHANGED UOthers

(***************************************************************************)
(* The dialect registry: the package variable dialects, a map from names   *)
(* to dialects, with RegisterDialect, GetDialect and the package's init.   *)
(***************************************************************************)
\* make(map[string]Dialect, 4)
EmptyRegistry == [n \in {} |-> NilDialect]

\* RegisterDialect, were a registered name never refused
RegisterDialectNeverRefuses(reg, dialect, force) ==
    LET name == dialect.name
    IN IF name \notin DOMAIN reg
       THEN [ok |-> TRUE, dialects |-> reg @@ (name :> dialect)]
       ELSE [ok |-> TRUE, dialects |-> reg]

\* RegisterDialect on the registry reg: whether it returns, and the registry after it
RegisterDialect(reg, dialect, force) ==
    LET name == dialect.name
    IN IF name \notin DOMAIN reg
       THEN [ok |-> TRUE, dialects |-> reg @@ (name :> dialect)]
       ELSE IF ~force THEN [ok |-> FALSE, dialects |-> reg]
       ELSE [ok |-> TRUE, dialects |-> reg]

\* a Go map read: the zero value (nil) for a missing key
GetDialect(reg, name) == IF name \in DOMAIN reg THEN reg[name] ELSE NilDialect

\* the package's init function, run on the empty registry
init ==
    LET r1 == RegisterDialect(EmptyRegistry, MySQL, FALSE)
        r2 == RegisterDialect(r1.dialects, Sqlite3, FALSE)
        r3 == RegisterDialect(r2.dialects, Postgres, FALSE)
    IN r3.dialects

\* inputs of the registry operations: the built-in dialects, and dialects
\* implemented by the caller, under a built-in name or a new one
NewName(i) == <<"n1", "n2", "n3", "n4">>[i]
NewNames == {NewName(i) : i \in 1..MaxNames}
BuiltinNames == {mysqlDialect, sqlite3Dialect, pqDialect}
Custom(name, impl) == [name |-> name, impl |-> impl]
RegDialects ==
    Dialects \cup {Custom(name, impl) : name \in BuiltinNames \cup NewNames, impl \in 1..MaxImpl}
LookupNames == BuiltinNames \cup NewNames \cup {"unknown"}

RIdle == dialects = init /\ regOut = [op |-> "idle", ok |-> TRUE]

ROthers == <<qvars, lvars, DefaultDialect, ivars, svars, uvars, pvars>>

RegisterDialectCall(dialect, force) ==
    /\ regOut.op # "idle"
    /\ LET r == RegisterDialect(dialects, dialect, force)
       IN /\ dialects' = r.dialects
          /\ regOut' = [op |-> "RegisterDialect", ok |-> r.ok,
                        dialect |-> dialect, force |-> force]
    /\ UNCHANGED ROthers

GetDialectCall(name) ==
    /\ regOut.op # "idle"
    /\ regOut' = [op |-> "GetDialect", ok |-> TRUE, name |-> name,
                  val |-> GetDialect(dialects, name)]
    /\ UNCHANGED <<dialects, ROthers>>

(***************************************************************************)
(* Build step by step, with the pooled buffer it writes into.  Several     *)
(* Builds run at once on one builder that is no longer configured.         *)
(* bufpool is the sync.Pool (the buffers resting in it), bufs the contents *)
(* of every buffer, renders the position and the locals of every Build.    *)
(***************************************************************************)
Renders == 1..MaxRenders
BufIds == 1..(MaxRenders + 1)
NoBuf == 0

\* bytes.Buffer.Reset, were the contents kept
ResetKeepsContents(text) == text

\* bytes.Buffer.Reset
Reset(text) == <<>>

\* sync.Pool.Get taking a resting buffer: the pool after it
PoolGet(pool, b) == pool \ {b}

\* sync.Pool.Put
PoolPut(pool, b) == pool \cup {b}

\* What InsertBuilder.Build does, in order: pre is whether it passes the
\* tests made before getBuffer, writes the texts it writes into the buffer,
\* late whether it panics after them, args the args it returns.
InsertPlan(b, dflt) ==
    LET r == InsertBuild(b, dflt)
        first == b.verb \o Str_INTO
    IN IF ~r.ok THEN [pre |-> FALSE, writes |-> <<>>, late |-> FALSE, args |-> <<>>]
       ELSE [pre |-> TRUE,
             writes |-> <<first, SliceFrom(r.val.sql, Len(first))>>,
             late |-> FALSE,
             args |-> r.val.args]

\* the same for SelectBuilder.Build, which fails in LimitOffset after its writes
SelectPlan(b, dflt) ==
    IF Len(b.tables) = 0 \/ Len(b.columns) = 0
    THEN [pre |-> FALSE, writes |-> <<>>, late |-> FALSE, args |-> <<>>]
    ELSE LET dialect == IF b.dialect = NilDialect THEN dflt ELSE b.dialect
             body == SelectBody(b, dialect)
             lo == LimitOffset(dialect, b.limit, b.offset)
         IN [pre |-> TRUE,
             writes |-> <<Str_SELECT, SliceFrom(body.sql, Len(Str_SELECT))>>
                          \o (IF b.limit > 0 \/ b.offset > 0
                              THEN <<(IF lo.ok THEN <<" ">> \o lo.val ELSE <<" ">>)>>
                              ELSE <<>>),
             late |-> (b.limit > 0 \/ b.offset > 0) /\ ~lo.ok,
             args |-> body.args]

\* the builder the Builds run on is the one that is not idle
Plan == IF ibOut.op # "idle" THEN InsertPlan(ib, DefaultDialect) ELSE SelectPlan(sb, DefaultDialect)

NoRender == [pc |-> "idle", buf |-> NoBuf, n |-> 0, sql |-> <<>>, out |-> Panic]
ReadyRender == [NoRender EXCEPT !.pc = "ready"]

PIdle ==
    /\ bufpool = {}
    /\ bufs = [b \in BufIds |-> <<>>]
    /\ renders = [p \in Renders |-> NoRender]

POthers == <<qvars, lvars, DefaultDialect, ivars, svars, uvars, rvars>>

\* the buffers some running Build holds
Held == {renders[p].buf : p \in Renders} \ {NoBuf}

\* Build is called: the tests before getBuffer
RenderStart(p) ==
    /\ renders[p].pc \in {"ready", "done"}
    /\ renders' = [renders EXCEPT ![p] =
                     IF Plan.pre THEN [ReadyRender EXCEPT !.pc = "get"]
                     ELSE [ReadyRender EXCEPT !.pc = "done", !.out = Panic]]
    /\ UNCHANGED <<bufpool, bufs, POthers>>

\* getBuffer: the pool hands out a resting buffer, which leaves the pool, or
\* makes a new one (a buffer that is neither resting nor held is garbage, and
\* its identity stands for a newly allocated buffer)
RenderGetBuffer(p) ==
    /\ renders[p].pc = "get"
    /\ \E b \in BufIds :
         /\ \/ /\ b \in bufpool
               /\ bufpool' = PoolGet(bufpool, b)
               /\ UNCHANGED bufs
            \/ /\ b \notin bufpool /\ b \notin Held
               /\ bufs' = [bufs EXCEPT ![b] = <<>>]
               /\ UNCHANGED bufpool
         /\ renders' = [renders EXCEPT ![p].pc = "write", ![p].buf = b, ![p].n = 1]
    /\ UNCHANGED POthers

\* one write into the buffer
RenderWrite(p) ==
    /\ renders[p].pc = "write"
    /\ LET r == renders[p]
       IN /\ bufs' = [bufs EXCEPT ![r.buf] = @ \o Plan.writes[r.n]]
          /\ renders' = [renders EXCEPT ![p].n = r.n + 1,
                                        ![p].pc = IF r.n < Len(Plan.writes) THEN "write"
                                                  ELSE IF Plan.late THEN "panic"
                                                  ELSE "string"]
    /\ UNCHANGED <<bufpool, POthers>>

\* LimitOffset panics: Build ends without returning its buffer
RenderPanic(p) ==
    /\ renders[p].pc = "panic"
    /\ renders' = [renders EXCEPT ![p].pc = "done", ![p].buf = NoBuf, ![p].out = Panic]
    /\ UNCHANGED <<bufpool, bufs, POthers>>

\* sql = buf.String()
RenderString(p) ==
    /\ renders[p].pc = "string"
    /\ renders' = [renders EXCEPT ![p].sql = bufs[renders[p].buf], ![p].pc = "reset"]
    /\ UNCHANGED <<bufpool, bufs, POthers>>

\* putBuffer, first half: buf.Reset()
RenderReset(p) ==
    /\ renders[p].pc = "reset"
    /\ bufs' = [bufs EXCEPT ![renders[p].buf] = Reset(@)]
    /\ renders' = [renders EXCEPT ![p].pc = "put"]
    /\ UNCHANGED <<bufpool, POthers>>

\* putBuffer, second half: bufpool.Put(buf)
RenderPut(p) ==
    /\ renders[p].pc = "put"
    /\ bufpool' = PoolPut(bufpool, renders[p].buf)
    /\ renders' = [renders EXCEPT ![p].buf = NoBuf, ![p].pc = "ret"]
    /\ UNCHANGED <<bufs, POthers>>

\* return intercept(b.intercept, sql, args)
RenderReturn(p) ==
    /\ renders[p].pc = "ret"
    /\ renders' = [renders EXCEPT ![p].out = intercept(renders[p].sql, Plan.args),
                                  ![p].pc = "done"]
    /\ UNCHANGED <<bufpool, bufs, POthers>>

\* the configured builders the Builds run on
RenderInserts ==
    {[NewInsertBuilder(d) EXCEPT !.verb = Str_INSERT, !.table = table,
                                 !.columns = <<ColName(1), ColName(2)>>,
                                 !.values = << <<"v1", "v2">>, <<"v2", "v1">> >>] :
        d \in {MySQL, Postgres}, table \in TableNames}

RenderSelects ==
    {[NewSelect(d) EXCEPT !.tables = << [Table |-> <<"t">>, Alias |-> <<>>] >>,
                          !.columns = << [Column |-> ColName(3), Alias |-> <<>>] >>,
                          !.wheres = << Equal(ColName(3), "789") >>,
                          !.limit = limit, !.offset = 1] :
        d \in {MySQL, Postgres}, limit \in {-1, 2}}

(***************************************************************************)
(* The package variable DefaultDialect: any caller may assign it.          *)
(***************************************************************************)
SetDefaultDialect(d) ==
    /\ DefaultDialect' = d
    /\ UNCHANGED <<qvars, lvars, ivars, svars, uvars, rvars, pvars>>

(***************************************************************************)
(* Specifications.  Each one exercises one part of the package and leaves  *)
(* the others idle.                                                        *)
(***************************************************************************)
New == [op |-> "new", ok |-> TRUE]

\* Quote applied once to an identifier
InitQuote ==
    /\ qd \in Dialects /\ qs \in QuoteInputs /\ qout = <<>> /\ qpc = "call"
    /\ LIdle /\ DefaultDialect = MySQL /\ IIdle /\ SIdle /\ UIdle /\ RIdle /\ PIdle

NextQuote == QuoteCall

SpecQuote == InitQuote /\ [][NextQuote]_vars

\* Quote applied to an identifier, and then to its own result
InitRequote == InitQuote

NextRequote == QuoteCall \/ QuoteAgainCall

SpecRequote == InitRequote /\ [][NextRequote]_vars

\* LimitOffset applied once to a limit and an offset
InitLimit ==
    /\ ld \in Dialects /\ llimit \in Nums /\ loffset \in Nums /\ lout = Panic /\ lpc = "call"
    /\ QIdle /\ DefaultDialect = MySQL /\ IIdle /\ SIdle /\ UIdle /\ RIdle /\ PIdle

NextLimit == LimitOffsetCall

SpecLimit == InitLimit /\ [][NextLimit]_vars

\* a caller configuring and building one InsertBuilder
InitInsert ==
    /\ DefaultDialect = MySQL
    /\ ib = NewInsertBuilder(DefaultDialect) /\ ibOut = New
    /\ QIdle /\ LIdle /\ SIdle /\ UIdle /\ RIdle /\ PIdle

NextInsert ==
    \/ \E table \in TableNames : Into(table)
    \/ \E table \in TableNames : IgnoreInto(table)
    \/ \E table \in TableNames : ReplaceInto(table)
    \/ \E columns \in ColLists : Columns(columns)
    \/ \E values \in Rows : Values(values)
    \/ \E values \in NamedRows : NamedValues(values)
    \/ \E d \in Dialects : InsertSetDialect(d)
    \/ InsertBuilderBuild

SpecInsert == InitInsert /\ [][NextInsert]_vars

\* a caller configuring and building one SelectBuilder
InitSelect ==
    /\ DefaultDialect = MySQL
    /\ sb = NewSelect(DefaultDialect) /\ sbOut = New
    /\ QIdle /\ LIdle /\ IIdle /\ UIdle /\ RIdle /\ PIdle

NextSelect ==
    \/ \E column \in SelColumns, alias \in Aliases : Select(column, alias)
    \/ \E alias \in Aliases : From(<<"t">>, alias)
    \/ \E limit \in -MaxNum..MaxNum : Limit(limit)
    \/ \E offset \in -MaxNum..MaxNum : Offset(offset)
    \/ \E d \in Dialects : SelectSetDialect(d)
    \/ SelectBuilderBuild

SpecSelect == InitSelect /\ [][NextSelect]_vars

\* a caller configuring and building one UpdateBuilder
InitUpdate ==
    /\ DefaultDialect = MySQL
    /\ ub = NewUpdate(DefaultDialect) /\ ubOut = New
    /\ QIdle /\ LIdle /\ IIdle /\ SIdle /\ RIdle /\ PIdle

NextUpdate ==
    \/ \E table \in {<<>>, Str_table} : Table(table)
    \/ \E setters \in SetterLists : Set(setters)
    \/ \E setters \in SetterLists : SetMore(setters)
    \/ \E cond \in UpdateConds : Where(cond)
    \/ \E d \in Dialects : UpdateSetDialect(d)
    \/ UpdateBuilderBuild

SpecUpdate == InitUpdate /\ [][NextUpdate]_vars

\* a caller registering and looking up dialects after the package's init
InitRegistry ==
    /\ dialects = init /\ regOut = New
    /\ DefaultDialect = MySQL
    /\ QIdle /\ LIdle /\ IIdle /\ SIdle /\ UIdle /\ PIdle

NextRegistry ==
    \/ \E dialect \in RegDialects, force \in BOOLEAN : RegisterDialectCall(dialect, force)
    \/ \E name \in LookupNames : GetDialectCall(name)

SpecRegistry == InitRegistry /\ [][NextRegistry]_vars

\* A caller that creates one builder with Insert() or Select(), never calls
\* SetDialect on it, and assigns DefaultDialect at any time.
InitDefault ==
    /\ DefaultDialect \in Dialects
    /\ \/ ib = NewInsertBuilder(DefaultDialect) /\ ibOut = New /\ SIdle
       \/ sb = NewSelect(DefaultDialect) /\ sbOut = New /\ IIdle
    /\ QIdle /\ LIdle /\ UIdle /\ RIdle /\ PIdle

NextDefault ==
    \/ \E d \in Dialects : SetDefaultDialect(d)
    \/ \E table \in TableNames : Into(table)
    \/ \E columns \in ColLists : Columns(columns)
    \/ \E values \in Rows : Values(values)
    \/ InsertBuilderBuild
    \/ \E column \in SelColumns, alias \in Aliases : Select(column, alias)
    \/ \E alias \in Aliases : From(<<"t">>, alias)
    \/ SelectBuilderBuild

SpecDefault == InitDefault /\ [][NextDefault]_vars

\* Builds running at once on one configured builder, with the pool empty at first
InitRender ==
    /\ DefaultDialect = MySQL
    /\ \/ ib \in RenderInserts /\ ibOut = New /\ SIdle
       \/ sb \in RenderSelects /\ sbOut = New /\ IIdle
    /\ bufpool = {}
    /\ bufs = [b \in BufIds |-> <<>>]
    /\ renders = [p \in Renders |-> ReadyRender]
    /\ QIdle /\ LIdle /\ UIdle /\ RIdle

NextRender ==
    \E p \in Renders :
        \/ RenderStart(p)
        \/ RenderGetBuffer(p)
        \/ RenderWrite(p)
        \/ RenderPanic(p)
        \/ RenderString(p)
        \/ RenderReset(p)
        \/ RenderPut(p)
        \/ RenderReturn(p)

SpecRender == InitRender /\ [][NextRender]_vars

\* a caller giving predicates to one SelectBuilder and building it
CondLists == UNION {[1..n -> Conds] : n \in 0..MaxWhereArgs}

InitWhere == InitSelect

NextWhere ==
    \/ Select(ColName(3), <<>>)
    \/ From(<<"t">>, <<>>)
    \/ \E conds \in CondLists : SelectWhere(conds)
    \/ \E d \in Dialects : SelectSetDialect(d)
    \/ SelectBuilderBuild

SpecWhere == InitWhere /\ [][NextWhere]_vars

\* a caller grouping the rows of one SelectBuilder made by NewSelectBuilder("c3")
GroupLists == UNION {[1..n -> {ColName(1), ColName(2)}] : n \in 0..MaxGroup}
HavingExprs == {<<"c", "1", ">", "1">>, <<"n", "=", "2">>}
HavingLists == UNION {[1..n -> HavingExprs] : n \in 1..MaxHaving}
Str_DESC == <<"D", "E", "S", "C">>

InitGroup ==
    /\ DefaultDialect = MySQL
    /\ sb = [NewSelect(DefaultDialect) EXCEPT
                !.columns = << [Column |-> ColName(3), Alias |-> getAlias(ColName(3), <<>>)] >>]
    /\ sbOut = New
    /\ QIdle /\ LIdle /\ IIdle /\ UIdle /\ RIdle /\ PIdle

NextGroup ==
    \/ From(<<"t">>, <<>>)
    \/ SelectWhere(<<Equal(ColName(3), "789")>>)
    \/ \E columns \in GroupLists : GroupBy(columns)
    \/ \E exprs \in HavingLists : Having(exprs)
    \/ \E order \in {<<>>, <<Str_DESC>>} : OrderBy(ColName(3), order)
    \/ SelectBuilderBuild

SpecGroup == InitGroup /\ [][NextGroup]_vars

\* a caller with one builder, an InsertBuilder or a SelectBuilder
InitBuild == InitInsert \/ InitSelect

NextBuild == NextInsert \/ NextSelect

SpecBuild == InitBuild /\ [][NextBuild]_vars

\* every part of the package, one at a time
Init ==
    \/ InitQuote \/ InitLimit \/ InitInsert \/ InitSelect \/ InitUpdate \/ InitRegistry
    \/ InitDefault \/ InitRender \/ InitGroup

Next ==
    \/ NextQuote \/ NextLimit \/ NextInsert \/ NextSelect \/ NextUpdate \/ NextRegistry
    \/ NextDefault \/ NextRender \/ NextWhere \/ NextGroup \/ NextRequote

Spec == Init /\ [][Next]_vars

(***************************************************************************)
(* Reading rendered SQL back: placeholders, groups and substrings.         *)
(***************************************************************************)
HasChar(s, c) == \E i \in 1..Len(s) : s[i] = c

CountChar(s, c) == Cardinality({i \in 1..Len(s) : s[i] = c})

DigitSet == {DigitChar(n) : n \in 0..9}

RECURSIVE DigitsAt(_, _)
DigitsAt(text, i) ==
    IF i <= Len(text) /\ text[i] \in DigitSet THEN <<text[i]>> \o DigitsAt(text, i + 1)
    ELSE <<>>

RECURSIVE Atoi(_)
Atoi(ds) == IF Len(ds) = 0 THEN 0 ELSE 10 * Atoi(SubSeq(ds, 1, Len(ds) - 1)) + DigitVal(ds[Len(ds)])

\* the positions of the placeholders of a text
PhPositions(text) == {i \in 1..Len(text) : text[i] \in {"?", "$"}}

\* The placeholders of a text in textual order, each with its ordinal (0 for "?")
\* and the number of "(" opened before it; groups is the number of "(" in the text.
Placeholders(text) ==
    LET P == PhPositions(text)
        pos(n) == CHOOSE p \in P : Cardinality({q \in P : q <= p}) = n
    IN [phs |-> [n \in 1..Cardinality(P) |->
                   [ord |-> IF text[pos(n)] = "$" THEN Atoi(DigitsAt(text, pos(n) + 1)) ELSE 0,
                    group |-> CountChar(SubSeq(text, 1, pos(n)), "(")]],
        groups |-> CountChar(text, "(")]

\* the positions at which pat occurs in text
Occurrences(text, pat) ==
    {i \in 1..(Len(text) - Len(pat) + 1) : SubSeq(text, i, i + Len(pat) - 1) = pat}

FirstOccurrence(text, pat) ==
    CHOOSE i \in Occurrences(text, pat) : \A j \in Occurrences(text, pat) : i <= j

\* the text before / after the first occurrence of pat (all of it / nothing when absent)
BeforeSub(text, pat) ==
    IF Occurrences(text, pat) = {} THEN text
    ELSE SubSeq(text, 1, FirstOccurrence(text, pat) - 1)

AfterSub(text, pat) ==
    IF Occurrences(text, pat) = {} THEN <<>>
    ELSE SubSeq(text, FirstOccurrence(text, pat) + Len(pat), Len(text))

\* the ordinal a dialect prints for the n-th placeholder, as Scan reads it
OrdinalOf(d, n) == IF d.name = pqDialect THEN n ELSE 0

(***************************************************************************)
(* C1.  When Build succeeds on an InsertBuilder holding k >= 1 rows of     *)
(* width w >= 1, the statement has exactly k*w placeholders, in k          *)
(* parenthesised groups of w, numbered 1..k*w from left to right (all "?"  *)
(* under MySQL and Sqlite3), and args are the rows concatenated, so the    *)
(* n-th placeholder binds the n-th arg.                                    *)
(***************************************************************************)
C1_InsertPlaceholdersBindArgs ==
    (ibOut.op = "Build" /\ ibOut.ok /\ Len(ib.values) >= 1 /\ Len(ib.values[1]) >= 1) =>
        LET k == Len(ib.values)
            w == Len(ib.values[1])
            tail == AfterSub(ibOut.val.sql, Str_VALUES)
            sc == Placeholders(tail)
        IN /\ Len(Placeholders(ibOut.val.sql).phs) = k * w
           /\ Len(sc.phs) = k * w
           /\ sc.groups = k
           /\ CountChar(tail, ")") = k
           /\ Len(ibOut.val.args) = k * w
           /\ \A n \in 1..(k * w) :
                /\ sc.phs[n].group = ((n - 1) \div w) + 1
                /\ sc.phs[n].ord = OrdinalOf(ib.dialect, n)
                /\ ibOut.val.args[n] = ib.values[((n - 1) \div w) + 1][((n - 1) % w) + 1]

C1_Witness ==
    /\ ibOut.op = "Build" /\ ibOut.ok
    /\ ib.dialect = Postgres
    /\ Len(ib.values) = 2 /\ Len(ib.values[1]) = 2
    /\ ib.values[1] # ib.values[2]

(***************************************************************************)
(* C3.  Quote("COUNT(t.c)") quotes each segment of the inner qualified     *)
(* name and leaves the function name bare: COUNT(qtq.qcq), q being the     *)
(* dialect's quote character.                                              *)
(***************************************************************************)
C3_QuoteFunctionOverQualifiedName ==
    (qpc = "done" /\ qs = CountTC) =>
        qout = <<"C", "O", "U", "N", "T", "(", QuoteChar(qd), "t", QuoteChar(qd), ".",
                 QuoteChar(qd), "c", QuoteChar(qd), ")">>

(***************************************************************************)
(* C4.  For an identifier name(expr)tail without space, '.' or quote       *)
(* character and with exactly one '(' followed later by a ')', Quote       *)
(* returns name + "(" + Quote(expr) + ")" + tail; with a second '(' after  *)
(* the first, the identifier is returned unchanged.                        *)
(***************************************************************************)
C4_QuoteFunctionCallUsesQuoteInside ==
    (qpc = "done" /\ ~HasChar(qs, " ") /\ ~HasChar(qs, ".") /\ ~HasChar(qs, QuoteChar(qd))) =>
        LET open == FirstOccurrence(qs, <<"(">>)
            rest == SubSeq(qs, open + 1, Len(qs))
            close == FirstOccurrence(rest, <<")">>)
        IN /\ (CountChar(qs, "(") = 1 /\ HasChar(rest, ")")) =>
                qout = SubSeq(qs, 1, open - 1) \o <<"(">>
                         \o Quote(qd, SubSeq(rest, 1, close - 1))
                         \o <<")">> \o SubSeq(rest, close + 1, Len(rest))
           /\ CountChar(qs, "(") >= 2 => qout = qs

(***************************************************************************)
(* C5.  As claimed: an identifier containing the dialect's quote character *)
(* is returned unchanged, whatever else it contains.                       *)
(***************************************************************************)
C5_Original ==
    (qpc = "done" /\ HasChar(qs, QuoteChar(qd))) => qout = qs

(***************************************************************************)
(* C5, amended.  An identifier containing the dialect's quote character is *)
(* returned unchanged when it contains a space or no '.'.  Otherwise each  *)
(* '.'-separated segment is treated on its own: a segment containing the   *)
(* quote character is returned unchanged, and a plain segment (no quote    *)
(* character, no '(', not "*") is wrapped in quote characters, so the      *)
(* backtick-quoted a followed by .b becomes two quoted segments.           *)
(***************************************************************************)
C5_QuotedSegmentsUnchanged ==
    (qpc = "done" /\ HasChar(qs, QuoteChar(qd))) =>
        IF HasChar(qs, " ") \/ ~HasChar(qs, ".") THEN qout = qs
        ELSE LET in == Split(qs, ".")
                 out == Split(qout, ".")
                 q == QuoteChar(qd)
             IN /\ Len(out) = Len(in)
                /\ \A i \in 1..Len(in) :
                     /\ HasChar(in[i], q) => out[i] = in[i]
                     /\ (~HasChar(in[i], q) /\ ~HasChar(in[i], "(") /\ in[i] # <<"*">>) =>
                            out[i] = <<q>> \o in[i] \o <<q>>

C5_Witness ==
    /\ qpc = "done" /\ qd = MySQL /\ qs = QuotedADotB
    /\ qout = <<BT, "a", BT, ".", BT, "b", BT>>

(***************************************************************************)
(* C6.  Insert Build fails whenever the column list is non-empty and some  *)
(* value row has a width different from the number of columns (a row of    *)
(* width 0 included).                                                      *)
(***************************************************************************)
C6_BuildFailsOnColumnRowWidthMismatch ==
    (/\ ibOut.op = "Build"
     /\ Len(ib.columns) > 0
     /\ \E r \in 1..Len(ib.values) : Len(ib.values[r]) # Len(ib.columns))
        => ~ibOut.ok

(***************************************************************************)
(* C7.  A Values or NamedValues call whose width differs from the width of *)
(* the first row held fails at that call and leaves the builder unchanged; *)
(* a call that adds a row adds one of the first row's width; so all rows   *)
(* held always have the same width.                                        *)
(***************************************************************************)
SameWidth(b) == \A r \in 1..Len(b.values) : Len(b.values[r]) = Len(b.values[1])

C7_ValuesWidthCheckedAtCall ==
    [][/\ (ibOut'.op \in {"Values", "NamedValues"} /\ ~ibOut'.ok) =>
            /\ ib' = ib
            /\ Len(ib.values) > 0
            /\ ibOut'.width # Len(ib.values[1])
       /\ (ibOut'.op \in {"Values", "NamedValues"} /\ ibOut'.ok) =>
            /\ Len(ib'.values) = Len(ib.values) + 1
            /\ SubSeq(ib'.values, 1, Len(ib.values)) = ib.values
            /\ Len(ib.values) > 0 => Len(ib'.values[Len(ib'.values)]) = Len(ib.values[1])
       /\ SameWidth(ib')]_vars

C7_Witness ==
    /\ ibOut.op \in {"Values", "NamedValues"} /\ ~ibOut.ok
    /\ Len(ib.values) > 0
    /\ ibOut.width # Len(ib.values[1])

(***************************************************************************)
(* C2.  In a built Update statement every Assign, Add and Sub assignment   *)
(* contributes one placeholder and one arg, every Incr and Decr the        *)
(* literal step 1 and no arg; SET and WHERE share one accumulator: with m  *)
(* bound values in SET and n in WHERE the placeholders are numbered 1..m   *)
(* in SET and m+1..m+n in WHERE, and args are the SET values in assignment *)
(* order followed by the WHERE values.                                     *)
(***************************************************************************)
Bound(st) == st.kind \in {"assign", "add", "sub"}

\* the values of the bound assignments, in order
RECURSIVE BoundVals(_)
BoundVals(setters) ==
    IF Len(setters) = 0 THEN <<>>
    ELSE (IF Bound(setters[1]) THEN <<setters[1].val>> ELSE <<>>) \o BoundVals(Tail(setters))

\* the results of ExampleUpdateBuilder
Update1Setters ==
    <<Assign(ColName(1), "v1"), Incr(ColName(2)), Assign(ColName(3), "123"), Add(ColName(4), "456")>>
Update1Sql ==
    <<"U", "P", "D", "A", "T", "E", " ", BT, "t", "a", "b", "l", "e", BT, " ", "S", "E", "T", " ",
      BT, "c", "1", BT, "=", "?", ",", " ",
      BT, "c", "2", BT, "=", BT, "c", "2", BT, "+", "1", ",", " ",
      BT, "c", "3", BT, "=", "?", ",", " ",
      BT, "c", "4", BT, "=", BT, "c", "4", BT, "+", "?">>
Update2Sql ==
    <<"U", "P", "D", "A", "T", "E", " ", DQ, "t", "a", "b", "l", "e", DQ, " ", "S", "E", "T", " ",
      DQ, "c", "2", DQ, "=", DQ, "c", "2", DQ, "-", "1",
      " ", "W", "H", "E", "R", "E", " ", DQ, "c", "3", DQ, "=", "$", "1">>

C2_UpdateSetAndWhereShareArgs ==
    (ubOut.op = "Build" /\ ubOut.ok) =>
        LET sql == ubOut.val.sql
            set == Placeholders(BeforeSub(sql, Str_WHERE))
            where == Placeholders(AfterSub(sql, Str_WHERE))
            setVals == BoundVals(ub.setters)
            m == Len(setVals)
            n == Len(ub.wheres)
            steps == {i \in 1..Len(ub.setters) : ~Bound(ub.setters[i])}
        IN /\ Len(set.phs) = m
           /\ Len(where.phs) = n
           /\ \A i \in 1..m : set.phs[i].ord = OrdinalOf(ub.dialect, i)
           /\ \A i \in 1..n : where.phs[i].ord = OrdinalOf(ub.dialect, m + i)
           /\ ubOut.val.args = setVals \o [i \in 1..n |-> ub.wheres[i].val]
           /\ Cardinality(Occurrences(sql, <<"+", "1">>) \cup Occurrences(sql, <<"-", "1">>))
                = Cardinality(steps)
           /\ (ub.dialect = MySQL /\ ub.table = Str_table /\ ub.setters = Update1Setters
                 /\ ub.wheres = <<>>) =>
                (sql = Update1Sql /\ ubOut.val.args = <<"v1", "123", "456">>)
           /\ (ub.dialect = Postgres /\ ub.table = Str_table /\ ub.setters = <<Decr(ColName(2))>>
                 /\ ub.wheres = <<Equal(ColName(3), "789")>>) =>
                (sql = Update2Sql /\ ubOut.val.args = <<"789">>)

C2_Witness ==
    /\ ubOut.op = "Build" /\ ubOut.ok
    /\ ub.dialect = Postgres
    /\ ub.setters = Update1Setters
    /\ ub.wheres = <<Equal(ColName(3), "789")>>
    /\ ubOut.val.args = <<"v1", "123", "456", "789">>

(***************************************************************************)
(* C8.  As claimed: Build fails exactly when a required fragment is        *)
(* missing (Insert: empty table name, or neither columns nor a non-empty   *)
(* first row; Select: no table, or no column) and returns a statement in   *)
(* every other configuration.                                              *)
(***************************************************************************)
InsertMissing(b) ==
    \/ b.table = <<>>
    \/ Len(b.columns) = 0 /\ (Len(b.values) = 0 \/ Len(b.values[1]) = 0)

SelectMissing(b) == Len(b.tables) = 0 \/ Len(b.columns) = 0

C8_Original ==
    /\ ibOut.op = "Build" => (ibOut.ok <=> ~InsertMissing(ib))
    /\ sbOut.op = "Build" => (sbOut.ok <=> ~SelectMissing(sb))

(***************************************************************************)
(* C8, amended.  Build fails whenever a required fragment is missing.  It  *)
(* also fails for Insert when a non-empty column list and a non-empty      *)
(* first row differ in width, and for Select when the limit is negative    *)
(* and the offset positive.  In every other configuration it returns an    *)
(* (sql, args) pair rendered to the end: an Insert statement ends with the *)
(* value groups after VALUES, a Select statement has its column list and   *)
(* its FROM clause.                                                        *)
(***************************************************************************)
InsertWidthMismatch(b) ==
    /\ Len(b.columns) > 0
    /\ Len(b.values) > 0
    /\ Len(b.values[1]) > 0
    /\ Len(b.values[1]) # Len(b.columns)

C8_BuildFailsOrReturnsStatement ==
    /\ ibOut.op = "Build" =>
         /\ ibOut.ok <=> ~(InsertMissing(ib) \/ InsertWidthMismatch(ib))
         /\ ibOut.ok =>
              /\ SubSeq(ibOut.val.sql, 1, Len(ib.verb)) = ib.verb
              /\ Occurrences(ibOut.val.sql, Str_VALUES \o <<"(">>) # {}
              /\ ibOut.val.sql[Len(ibOut.val.sql)] = ")"
    /\ sbOut.op = "Build" =>
         /\ sbOut.ok <=> ~(SelectMissing(sb) \/ (sb.limit < 0 /\ sb.offset > 0))
         /\ sbOut.ok =>
              /\ SubSeq(sbOut.val.sql, 1, Len(Str_SELECT)) = Str_SELECT
              /\ Occurrences(sbOut.val.sql, Str_FROM) # {}

C8_Witness ==
    /\ sbOut.op = "Build" /\ ~sbOut.ok
    /\ Len(sb.tables) = 0 /\ Len(sb.columns) > 0
    /\ sb.limit = 0 /\ sb.offset = 0

(***************************************************************************)
(* C9.  Building a Select whose limit is negative fails, for every offset. *)
(***************************************************************************)
C9_NegativeLimitFailsBuild ==
    (sbOut.op = "Build" /\ sb.limit < 0) => ~sbOut.ok

(***************************************************************************)
(* C10.  LimitOffset fails when limit < 0, whatever the offset; otherwise  *)
(* it returns "LIMIT <limit>" when offset is 0 and "LIMIT <limit> OFFSET   *)
(* <offset>" when it is not: "LIMIT 10" for (10, 0), "LIMIT 10 OFFSET 20"  *)
(* for (10, 20).                                                           *)
(***************************************************************************)
Str_LIMIT == <<"L", "I", "M", "I", "T", " ">>
Str_OFFSET == <<" ", "O", "F", "F", "S", "E", "T", " ">>

\* the decimal digits of a number and its sign, read back from text
Decimal(text) ==
    IF Len(text) > 0 /\ text[1] = "-" THEN 0 - Atoi(Tail(text)) ELSE Atoi(text)

IsDecimal(text) ==
    LET ds == IF Len(text) > 0 /\ text[1] = "-" THEN Tail(text) ELSE text
    IN Len(ds) > 0 /\ \A i \in 1..Len(ds) : ds[i] \in DigitSet

C10_LimitOffsetText ==
    lpc = "done" =>
        IF llimit < 0 THEN ~lout.ok
        ELSE /\ lout.ok
             /\ SubSeq(lout.val, 1, Len(Str_LIMIT)) = Str_LIMIT
             /\ LET rest == SubSeq(lout.val, Len(Str_LIMIT) + 1, Len(lout.val))
                    num == BeforeSub(rest, Str_OFFSET)
                    off == AfterSub(rest, Str_OFFSET)
                IN /\ IsDecimal(num) /\ Decimal(num) = llimit
                   /\ IF loffset = 0 THEN rest = num
                      ELSE /\ rest = num \o Str_OFFSET \o off
                           /\ IsDecimal(off) /\ Decimal(off) = loffset
             /\ (llimit = 10 /\ loffset = 0) => lout.val = Str_LIMIT \o <<"1", "0">>
             /\ (llimit = 10 /\ loffset = 20) =>
                    lout.val = Str_LIMIT \o <<"1", "0">> \o Str_OFFSET \o <<"2", "0">>

C10_Witness ==
    /\ lpc = "done" /\ llimit = 10 /\ loffset = 20 /\ lout.ok
    /\ lout.val = Str_LIMIT \o <<"1", "0">> \o Str_OFFSET \o <<"2", "0">>

(***************************************************************************)
(* C11.  RegisterDialect with force = true on a name that is registered    *)
(* returns, and afterwards the lookup of that name gives the dialect just  *)
(* registered, not the one held before.                                    *)
(***************************************************************************)
C11_ForcedRegistrationOverwrites ==
    [][(/\ regOut'.op = "RegisterDialect"
        /\ regOut'.force
        /\ regOut'.dialect.name \in DOMAIN dialects)
          => /\ regOut'.ok
             /\ GetDialect(dialects', regOut'.dialect.name) = regOut'.dialect]_vars

(***************************************************************************)
(* C12.  After initialization the registry holds exactly mysql, sqlite3    *)
(* and postgres.  RegisterDialect with force = false on a registered name  *)
(* fails and leaves the registry unchanged; no other registration fails;   *)
(* registering a new name adds exactly that entry.  GetDialect never       *)
(* fails and changes nothing: it returns the entry of a registered name    *)
(* and nil for a name that is not registered.                              *)
(***************************************************************************)
C12_RegistryContract ==
    /\ (regOut.op = "new" =>
          /\ DOMAIN dialects = {mysqlDialect, sqlite3Dialect, pqDialect}
          /\ dialects[mysqlDialect] = MySQL
          /\ dialects[sqlite3Dialect] = Sqlite3
          /\ dialects[pqDialect] = Postgres)
    /\ [][/\ regOut'.op = "RegisterDialect" =>
              LET name == regOut'.dialect.name
              IN /\ (name \in DOMAIN dialects /\ ~regOut'.force) =>
                       (~regOut'.ok /\ dialects' = dialects)
                 /\ ~regOut'.ok => (name \in DOMAIN dialects /\ ~regOut'.force)
                 /\ name \notin DOMAIN dialects =>
                       /\ regOut'.ok
                       /\ DOMAIN dialects' = DOMAIN dialects \cup {name}
                       /\ dialects'[name] = regOut'.dialect
                       /\ \A n \in DOMAIN dialects : dialects'[n] = dialects[n]
          /\ regOut'.op = "GetDialect" =>
              /\ regOut'.ok
              /\ dialects' = dialects
              /\ regOut'.name \in DOMAIN dialects => regOut'.val = dialects[regOut'.name]
              /\ regOut'.name \notin DOMAIN dialects => regOut'.val = NilDialect]_vars

C12_Witness ==
    /\ regOut.op = "RegisterDialect" /\ ~regOut.ok
    /\ regOut.dialect.name = NewName(1)
    /\ NewName(1) \in DOMAIN dialects
    /\ dialects[NewName(1)] # regOut.dialect
    /\ NewName(2) \notin DOMAIN dialects

(***************************************************************************)
(* C13.  A builder on which SetDialect was never called renders with the   *)
(* value DefaultDialect has when Build is called: the statement uses that  *)
(* dialect's quote character and no other, and its placeholders are "$n"   *)
(* exactly when that dialect is Postgres.  (The callers of SpecDefault     *)
(* never call SetDialect.)                                                 *)
(***************************************************************************)
OtherQuoteChar(d) == IF QuoteChar(d) = BT THEN DQ ELSE BT

RendersWith(sql, d) ==
    /\ HasChar(sql, QuoteChar(d))
    /\ ~HasChar(sql, OtherQuoteChar(d))
    /\ \A i \in PhPositions(sql) : (sql[i] = "$") <=> (d = Postgres)

C13_UnsetDialectFollowsDefault ==
    /\ (ibOut.op = "Build" /\ ibOut.ok) => RendersWith(ibOut.val.sql, DefaultDialect)
    /\ (sbOut.op = "Build" /\ sbOut.ok) => RendersWith(sbOut.val.sql, DefaultDialect)

(***************************************************************************)
(* C14.  Build only reads the builder.  With any number of Builds running  *)
(* one after another or at once on a builder that is no longer configured, *)
(* no step changes a field of the builder; every Build that ends returns   *)
(* (or fails) exactly as a single Build of that builder does; a buffer is  *)
(* never held by two Builds, never held while it rests in the pool; the    *)
(* buffers resting in the pool are empty and a Build starts writing into   *)
(* an empty buffer, so no text passes from one Build into another.         *)
(***************************************************************************)
SingleBuild ==
    IF ibOut.op # "idle" THEN InsertBuild(ib, DefaultDialect) ELSE SelectBuild(sb, DefaultDialect)

BuildsAgree ==
    /\ \A p \in Renders : renders[p].pc = "done" => renders[p].out = SingleBuild
    /\ \A p, q \in Renders :
         (p # q /\ renders[p].buf # NoBuf) => renders[p].buf # renders[q].buf
    /\ \A p \in Renders : renders[p].buf # NoBuf => renders[p].buf \notin bufpool
    /\ \A b \in bufpool : bufs[b] = <<>>
    /\ \A p \in Renders :
         (renders[p].pc = "write" /\ renders[p].n = 1) => bufs[renders[p].buf] = <<>>

C14_BuildOnlyReadsAndBuffersAreNotShared ==
    /\ []BuildsAgree
    /\ [][ib' = ib /\ sb' = sb]_vars

C14_Witness ==
    /\ renders[1].pc = "write" /\ renders[1].n = 2
    /\ renders[2].pc = "done" /\ renders[2].out.ok
    /\ renders[2].out = SingleBuild
    /\ renders[1].buf \in BufIds
    /\ bufpool # {}
    /\ bufs[renders[1].buf] # <<>>

(***************************************************************************)
(* C15.  Every Where call on a SelectBuilder appends its predicates, in    *)
(* order, to those already held.  A built statement has no WHERE and no    *)
(* args when no predicate is held; with one predicate, WHERE is followed   *)
(* by that predicate alone; with two or more, by one AND combination of    *)
(* all of them in the order held.  The placeholders are numbered from 1    *)
(* and args are the predicates' values in that order: one equality on c3   *)
(* with 789 renders WHERE "c3"=$1 and args [789] under Postgres.           *)
(***************************************************************************)
\* the text of the i-th equality predicate of a statement
PredText(d, c, i) ==
    <<QuoteChar(d)>> \o c.col \o <<QuoteChar(d), "=">>
      \o (IF d = Postgres THEN <<"$", DigitChar(i)>> ELSE <<"?">>)

WhereRendered ==
    (sbOut.op = "Build" /\ sbOut.ok) =>
        LET n == Len(sb.wheres)
            sql == sbOut.val.sql
            preds == [i \in 1..n |-> PredText(sb.dialect, sb.wheres[i], i)]
        IN /\ n = 0 => (Occurrences(sql, Str_WHERE) = {} /\ sbOut.val.args = <<>>)
           /\ n = 1 => AfterSub(sql, Str_WHERE) = preds[1]
           /\ n >= 2 => AfterSub(sql, Str_WHERE) = <<"(">> \o Join(preds, Str_AND) \o <<")">>
           /\ n >= 1 => Cardinality(Occurrences(sql, Str_WHERE)) = 1
           /\ sbOut.val.args = [i \in 1..n |-> sb.wheres[i].val]
           /\ (sb.dialect = Postgres /\ sb.wheres = <<Equal(ColName(3), "789")>>) =>
                 /\ AfterSub(sql, Str_WHERE) = <<DQ, "c", "3", DQ, "=", "$", "1">>
                 /\ sbOut.val.args = <<"789">>

C15_SelectWherePredicatesAccumulate ==
    /\ []WhereRendered
    /\ [][sbOut'.op = "Where" =>
            (sbOut'.ok /\ sb'.wheres = sb.wheres \o sbOut'.args)]_vars

C15_Witness ==
    /\ sbOut.op = "Build" /\ sbOut.ok
    /\ sb.dialect = Postgres
    /\ sb.wheres = <<Equal(ColName(3), "789"), Equal(ColName(1), "v1"), Equal(ColName(3), "789")>>
    /\ sbOut.val.args = <<"789", "v1", "789">>

(***************************************************************************)
(* C16.  A built Select statement emits every column and every table as    *)
(* its quoted text, followed by AS and the quoted alias only when the      *)
(* caller gave a non-empty alias; a qualified column (t.c) given without   *)
(* alias is emitted without AS, and the name after its qualifier is only   *)
(* the name SelectedColumns returns for it.  (The callers of SpecSelect    *)
(* give no alias or the alias a, which no column yields by inference.)     *)
(***************************************************************************)
ExplicitAliases == {al[1] : al \in Aliases \ {<<>>}}

\* a column or table as the claim emits it
EmittedAsClaimed(d, name, alias) ==
    Quote(d, name) \o (IF alias \in ExplicitAliases THEN Str_AS \o Quote(d, alias) ELSE <<>>)

C16_AsOnlyForExplicitAlias ==
    (sbOut.op = "Build" /\ sbOut.ok) =>
        LET d == sb.dialect
            sql == sbOut.val.sql
            expected ==
                Str_SELECT
                  \o Join([i \in 1..Len(sb.columns) |->
                             EmittedAsClaimed(d, sb.columns[i].Column, sb.columns[i].Alias)],
                          CommaSp)
                  \o Str_FROM
                  \o Join([i \in 1..Len(sb.tables) |->
                             EmittedAsClaimed(d, sb.tables[i].Table, sb.tables[i].Alias)],
                          CommaSp)
        IN /\ SubSeq(sql, 1, Len(expected)) = expected
           /\ \A i \in 1..Len(sb.columns) :
                sb.columns[i].Column = <<"t", ".", "c">> =>
                    SelectedColumns(sb)[i] \in {<<"c">>} \cup ExplicitAliases

(***************************************************************************)
(* C17.  On an UpdateBuilder, Set replaces the whole assignment list by    *)
(* its arguments and SetMore appends its arguments to it; no other call    *)
(* changes the list; so the list is the arguments of the last Set call     *)
(* followed by those of every later SetMore call.  The SET clause of a     *)
(* built statement is that list rendered in order and nothing else, and    *)
(* args begin with its bound values: Set(Assign c1) then Set(Decr c2)      *)
(* renders only "c2"="c2"-1, with no arg for c1.                           *)
(***************************************************************************)
\* the text of an assignment whose bound value, if any, is the k-th of the statement
SetterText(d, st, k) ==
    LET c == <<QuoteChar(d)>> \o st.col \o <<QuoteChar(d)>>
        ph == IF d = Postgres THEN <<"$", DigitChar(k)>> ELSE <<"?">>
    IN c \o <<"=">>
         \o (CASE st.kind = "assign" -> ph
               [] st.kind = "incr" -> c \o <<"+", "1">>
               [] st.kind = "decr" -> c \o <<"-", "1">>
               [] st.kind = "add" -> c \o <<"+">> \o ph
               [] st.kind = "sub" -> c \o <<"-">> \o ph)

\* how many of the first i assignments bind a value
BoundUpTo(setters, i) == Cardinality({j \in 1..i : Bound(setters[j])})

SetClauseRendered ==
    (ubOut.op = "Build" /\ ubOut.ok) =>
        LET sql == ubOut.val.sql
            clause == BeforeSub(AfterSub(sql, Str_SET), Str_WHERE)
            m == Len(BoundVals(ub.setters))
        IN /\ clause = Join([i \in 1..Len(ub.setters) |->
                               SetterText(ub.dialect, ub.setters[i], BoundUpTo(ub.setters, i))],
                            CommaSp)
           /\ SubSeq(ubOut.val.args, 1, m) = BoundVals(ub.setters)
           /\ Len(ubOut.val.args) = m + Len(ub.wheres)
           /\ ub.setters = <<Decr(ColName(2))>> =>
                 /\ clause = <<QuoteChar(ub.dialect), "c", "2", QuoteChar(ub.dialect), "=",
                               QuoteChar(ub.dialect), "c", "2", QuoteChar(ub.dialect), "-", "1">>
                 /\ \A i \in 1..Len(ubOut.val.args) : ubOut.val.args[i] # "v1" \/ i > m

C17_SetReplacesSetMoreAppends ==
    /\ []SetClauseRendered
    /\ [][/\ ubOut'.op = "Set" => ub'.setters = ubOut'.args
          /\ ubOut'.op = "SetMore" => ub'.setters = ub.setters \o ubOut'.args
          /\ ubOut'.op \notin {"Set", "SetMore"} => ub'.setters = ub.setters]_vars

C17_Witness ==
    /\ ubOut.op = "SetMore"
    /\ ubOut.args = <<Assign(ColName(3), "123"), Add(ColName(4), "456")>>
    /\ ub.setters = Update1Setters

(***************************************************************************)
(* C18.  GroupBy replaces the GROUP BY columns and Having appends its      *)
(* expressions to those held.  A built Select statement has a HAVING       *)
(* clause only when it has GROUP BY columns: HAVING expressions held with  *)
(* an empty GROUP BY list are left out, and Build does not fail for them.  *)
(* When HAVING is emitted, it follows the GROUP BY columns directly, its   *)
(* expressions are the raw texts held, in order, joined by " AND ", and    *)
(* ORDER BY, if any, comes after it.  HAVING adds nothing to args.         *)
(***************************************************************************)
HavingRendered ==
    sbOut.op = "Build" =>
        /\ sbOut.ok <=> (Len(sb.tables) > 0 /\ Len(sb.columns) > 0)
        /\ sbOut.ok =>
             LET sql == sbOut.val.sql
                 q == QuoteChar(sb.dialect)
                 cols == Join([i \in 1..Len(sb.groupbys) |-> <<q>> \o sb.groupbys[i] \o <<q>>],
                              CommaSp)
                 group == BeforeSub(AfterSub(sql, Str_GROUP_BY), Str_ORDER_BY)
             IN /\ Len(sb.groupbys) = 0 =>
                      /\ Occurrences(sql, Str_HAVING) = {}
                      /\ Occurrences(sql, Str_GROUP_BY) = {}
                /\ (Len(sb.groupbys) > 0 /\ Len(sb.havings) = 0) =>
                      /\ Occurrences(sql, Str_HAVING) = {}
                      /\ group = cols
                /\ (Len(sb.groupbys) > 0 /\ Len(sb.havings) > 0) =>
                      /\ Cardinality(Occurrences(sql, Str_HAVING)) = 1
                      /\ group = cols \o Str_HAVING \o Join(sb.havings, Str_AND)
                /\ Len(sb.orderbys) > 0 =>
                      /\ Cardinality(Occurrences(sql, Str_ORDER_BY)) = 1
                      /\ \A i \in Occurrences(sql, Str_HAVING) \cup Occurrences(sql, Str_GROUP_BY) :
                           i < FirstOccurrence(sql, Str_ORDER_BY)
                /\ sbOut.val.args = [i \in 1..Len(sb.wheres) |-> sb.wheres[i].val]
                /\ Len(Placeholders(sql).phs) = Len(sb.wheres)

C18_HavingOnlyWithGroupBy ==
    /\ []HavingRendered
    /\ [][/\ sbOut'.op = "Having" => sb'.havings = sb.havings \o sbOut'.args
          /\ sbOut'.op = "GroupBy" => (sb'.groupbys = sbOut'.args /\ sb'.havings = sb.havings)]_vars

C18_Witness ==
    /\ sbOut.op = "Build" /\ sbOut.ok
    /\ Len(sb.groupbys) = 0
    /\ Len(sb.havings) = 2
    /\ Len(sb.orderbys) = 1
    /\ Occurrences(sbOut.val.sql, Str_HAVING) = {}

(***************************************************************************)
(* C19.  Quote is idempotent: for every built-in dialect and every         *)
(* identifier s, Quote applied to Quote(s) returns Quote(s) unchanged      *)
(* (plain, qualified, function-call, "*", space-containing and quoted      *)
(* identifiers alike).                                                     *)
(***************************************************************************)
C19_QuoteIsIdempotent ==
    qpc = "again" => qout = qs

C19_Witness ==
    /\ qpc = "again" /\ qd = MySQL
    /\ qs = <<"a", "(", BT, "a", BT, ")">>
    /\ qout = qs

=============================================================================
